---- MODULE Spec2Model ----
(***************************************************************************)
(* Model of copy_dist.py: the script that resets /workspace/dist and       *)
(* copies a fixed manifest of build outputs into it, printing one notice   *)
(* per manifest entry, then a listing and a total size.                    *)
(*                                                                         *)
(* The file system is a function from paths (sequences of names, relative  *)
(* to the workspace root /workspace) to entries.  A directory is           *)
(* [kind |-> "dir"]; a regular file carries the identity of its content    *)
(* (data), its length in bytes (size) and whether it can be opened for     *)
(* reading.  A file written only in part holds a prefix of the content:    *)
(* the same data with a smaller size.                                      *)
(***************************************************************************)
EXTENDS Integers, Sequences, FiniteSets, TLC

VARIABLES
  fs,       \* the file system under /workspace
  pc,       \* position of the script: reset, loop, list, size, done, crashed
  i,        \* index of the next manifest entry of the for loop
  out,      \* the lines printed by the current run, in order
  written,  \* paths created by the current run
  raised,   \* manifest sources whose copy raised in the current run
  faults,   \* environment faults (I/O errors) injected so far
  run,      \* number of the current run
  prev,     \* what the previous run left: destination, output, completion
  start     \* the file system as it was when the current run started

vars == <<fs, pc, i, out, written, raised, faults, run, prev, start>>

---------------------------------------------------------------------------
(* Bounds *)

MaxRuns == 2
MaxFaults == 1

---------------------------------------------------------------------------
(* Constants of the script *)

dist_dir == <<"dist">>

files_to_copy ==
  << <<".next", ".next">>,
     <<"public", "public">>,
     <<"package.json", "package.json">>,
     <<"server.js", "server.js">>,
     <<".env.local", ".env">>,
     <<"next.config.mjs", "next.config.mjs">> >>

KiB == 1024

NumEntries == Len(files_to_copy)
SrcOf(k) == files_to_copy[k][1]
DstOf(k) == files_to_copy[k][2]

\* src_path = f'/workspace/{src}'
SrcPath(src) == <<src>>

\* Variants of dst_path: the rename dropped; the destination root dropped.
DstPath_sameName(k) == dist_dir \o <<SrcOf(k)>>
DstPath_noDist(k) == <<DstOf(k)>>
\* dst_path = f'{dist_dir}/{dst}'
DstPath(k) == dist_dir \o <<DstOf(k)>>

---------------------------------------------------------------------------
(* File-system primitives *)

Dir == [kind |-> "dir"]
File(d, n, r) == [kind |-> "file", data |-> d, size |-> n, readable |-> r]

Under(p, root) == Len(p) >= Len(root) /\ SubSeq(p, 1, Len(root)) = root
Inside(p, root) == Len(p) > Len(root) /\ Under(p, root)
Parent(p) == SubSeq(p, 1, Len(p) - 1)
Children(f, d) == {p \in DOMAIN f : Len(p) = Len(d) + 1 /\ Under(p, d)}
Restrict(f, S) == [p \in S |-> f[p]]
Put(f, p, e) == [q \in DOMAIN f \cup {p} |-> IF q = p THEN e ELSE f[q]]

\* os.path.exists
Exists(f, p) == p \in DOMAIN f
\* os.path.isdir
IsDir(f, p) == Exists(f, p) /\ f[p].kind = "dir"
IsFile(f, p) == Exists(f, p) /\ f[p].kind = "file"

\* shutil.rmtree on a directory: the directory and everything under it go
RmTree(f, root) == Restrict(f, {p \in DOMAIN f : ~Under(p, root)})

\* os.makedirs on a path that does not exist (its parent /workspace does)
MakeDirs(f, p) == Put(f, p, Dir)

---------------------------------------------------------------------------
(* Environment faults.  A call that touches the disk can fail for a reason *)
(* the script does not control (disk full, permission denied on the        *)
(* destination, path too long).  A fault names the source path whose copy  *)
(* fails and how far the write got.                                        *)

NoFault == [at |-> <<>>, how |-> "none"]

\* What a failed write of entry e to path t leaves behind: nothing (the
\* open failed), a prefix (the write failed), or all of it (copystat failed).
WriteFile(f, t, e, how) ==
  CASE how = "open" -> f
    [] how = "partial" -> Put(f, t, [e EXCEPT !.size = e.size \div 2])
    [] OTHER -> Put(f, t, e)

\* The points of a copy of s at which a fault can strike.
FaultPoints(f, s) ==
  {[at |-> p, how |-> "mkdir"] : p \in {q \in DOMAIN f : Under(q, s) /\ f[q].kind = "dir"}}
  \cup
  {[at |-> p, how |-> h] :
     p \in {q \in DOMAIN f : Under(q, s) /\ f[q].kind = "file" /\ f[q].readable},
     h \in {"open", "partial", "stat"}}

---------------------------------------------------------------------------
(* shutil.copy2 and shutil.copytree.  Each returns the file system it      *)
(* leaves and whether it returned normally (ok) or raised.                 *)

Copy2(f, s, d, flt) ==
  LET t == IF IsDir(f, d) THEN d \o <<s[Len(s)]>> ELSE d IN
  IF ~f[s].readable THEN [fs |-> f, ok |-> FALSE]
  ELSE IF flt.at = s THEN [fs |-> WriteFile(f, t, f[s], flt.how), ok |-> FALSE]
  ELSE [fs |-> Put(f, t, f[s]), ok |-> TRUE]

RECURSIVE CopyTree(_, _, _, _)
RECURSIVE CopyEntries(_, _, _, _, _)

\* The loop of copytree over the entries of a directory: an entry that
\* fails is recorded and the loop goes on with the next one.
CopyEntries(acc, todo, s, d, flt) ==
  IF todo = {} THEN acc
  ELSE LET e == CHOOSE x \in todo : TRUE
           t == d \o <<e[Len(e)]>>
           r == IF IsDir(acc.fs, e) THEN CopyTree(acc.fs, e, t, flt)
                ELSE Copy2(acc.fs, e, t, flt)
       IN CopyEntries([fs |-> r.fs, ok |-> acc.ok /\ r.ok], todo \ {e}, s, d, flt)

CopyTree(f, s, d, flt) ==
  IF Exists(f, d) \/ flt.at = s THEN [fs |-> f, ok |-> FALSE]
  ELSE CopyEntries([fs |-> MakeDirs(f, d), ok |-> TRUE], Children(f, s), s, d, flt)

---------------------------------------------------------------------------
(* The summary: os.listdir, and os.walk with os.path.getsize               *)

\* os.listdir(dist_dir): the names of the immediate entries
ListDir(f, d) == {p[Len(p)] : p \in Children(f, d)}

RECURSIVE SumSizes(_, _)
SumSizes(f, S) ==
  IF S = {} THEN 0
  ELSE LET p == CHOOSE x \in S : TRUE IN f[p].size + SumSizes(f, S \ {p})

RECURSIVE SumWalks(_, _)
RECURSIVE Walk(_, _)

\* Variant of the walk that does not descend into subdirectories.
Walk_topOnly(f, dp) == SumSizes(f, {p \in Children(f, dp) : f[p].kind = "file"})
\* sum(getsize(join(dp, f)) for dp, dn, fn in os.walk(top) for f in fn):
\* the files of dp, then the same for each directory of dp
Walk(f, dp) ==
  SumSizes(f, {p \in Children(f, dp) : f[p].kind = "file"})
  + SumWalks(f, {p \in Children(f, dp) : f[p].kind = "dir"})

SumWalks(f, S) ==
  IF S = {} THEN 0
  ELSE LET p == CHOOSE x \in S : TRUE IN Walk(f, p) + SumWalks(f, S \ {p})

MiB == KiB * KiB

\* Variant of the format that truncates instead of rounding.
Fmt2_truncate(bytes) == (bytes * 100) \div MiB
\* f'{bytes / 1024 / 1024:.2f}', as a number of hundredths of a mebibyte.
\* The division by a power of two is exact in binary floating point, and the
\* format rounds the exact value to the nearest hundredth, a tie to even.
Fmt2(bytes) ==
  LET q == (bytes * 100) \div MiB
      r == (bytes * 100) % MiB
  IN IF 2 * r > MiB \/ (2 * r = MiB /\ q % 2 = 1) THEN q + 1 ELSE q

Notice(kind, src) == [kind |-> kind, src |-> src]
ListingLine(names) == [kind |-> "Listing", names |-> names]
SizeLine(h) == [kind |-> "Size", hundredths |-> h]

---------------------------------------------------------------------------
(* Initial states: what the workspace can hold when the script starts      *)

FileSize(p) ==
  LET n == CASE p[1] = ".next" -> 1048576
             [] p[1] = "public" -> 131072
             [] p[1] = "package.json" -> 5243
             [] p[1] = "server.js" -> 52429
             [] p[1] = ".env.local" -> 10
             [] OTHER -> 393216
  IN IF Len(p) = 3 THEN n \div 4 + 1 ELSE n

Data(p) == p

SrcFile(p, r) == (p :> File(Data(p), FileSize(p), r))

SrcTree(src, shape) ==
  LET top == SrcPath(src) IN
  CASE shape = "file" -> SrcFile(top, TRUE)
    [] shape = "locked" -> SrcFile(top, FALSE)
    [] shape \in {"dir", "dirlocked"} ->
         (top :> Dir) @@ SrcFile(top \o <<"f">>, TRUE) @@ (top \o <<"d">> :> Dir)
         @@ SrcFile(top \o <<"d", "g">>, shape = "dir")
    [] OTHER -> [p \in {} |-> Dir]

\* The shapes each manifest source is tried with.
Shapes(k) ==
  CASE k = 1 -> {"none", "dir"}
    [] k = 2 -> {"dir", "dirlocked"}
    [] k = 4 -> {"file", "locked"}
    [] k = 3 -> {"none", "file"}
    [] k = 5 -> {"none", "file"}
    [] OTHER -> {"file"}

StaleDist(st) ==
  CASE st = "file" -> (dist_dir :> File(<<"stale">>, 7, TRUE))
    [] st = "stale" ->
         (dist_dir :> Dir)
         @@ (dist_dir \o <<"old.txt">> :> File(<<"stale">>, 2097152, TRUE))
         @@ (dist_dir \o <<"public">> :> Dir)
         @@ (dist_dir \o <<"public", "stale">> :> File(<<"stale">>, 7, TRUE))
         @@ (dist_dir \o <<".env.local">> :> File(<<"stale">>, 7, TRUE))
    [] OTHER -> [p \in {} |-> Dir]

RECURSIVE Workspace(_, _)
Workspace(sh, k) ==
  IF k = 0 THEN [p \in {} |-> Dir]
  ELSE SrcTree(SrcOf(k), sh[k]) @@ Workspace(sh, k - 1)

DistOf(f) == Restrict(f, {p \in DOMAIN f : Under(p, dist_dir)})
SourcesOf(f) == Restrict(f, {p \in DOMAIN f : ~Under(p, dist_dir)})

NoPrev == [dist |-> DistOf(<<>>), out |-> <<>>, done |-> FALSE]

Init ==
  /\ \E sh \in [1..NumEntries -> {"none", "file", "locked", "dir", "dirlocked"}] :
       /\ \A k \in 1..NumEntries : sh[k] \in Shapes(k)
       /\ \E st \in {"absent", "file", "stale"} :
            fs = Workspace(sh, NumEntries) @@ StaleDist(st)
  /\ pc = "reset"
  /\ i = 1
  /\ out = <<>>
  /\ written = {}
  /\ raised = {}
  /\ faults = 0
  /\ run = 1
  /\ prev = NoPrev
  /\ start = fs

---------------------------------------------------------------------------
(* The script, step by step *)

\* Variants of the reset: one that deletes the files but keeps the
\* directories, one that deletes nothing.
ResetDist_keepDirs(f) ==
  Put(Restrict(f, {p \in DOMAIN f : ~(Inside(p, dist_dir) /\ f[p].kind = "file")}),
      dist_dir, Dir)
ResetDist_noRemove(f) == Put(f, dist_dir, Dir)
\* if os.path.exists(dist_dir): shutil.rmtree(dist_dir)
\* os.makedirs(dist_dir)
ResetDist(f) ==
  MakeDirs(IF Exists(f, dist_dir) THEN RmTree(f, dist_dir) ELSE f, dist_dir)

\* What an rmtree that raises can leave: everything (it failed at once; always
\* so when the path is not a directory), or the directories without their files.
RmTreeFailed(f) ==
  {f} \cup
  IF IsDir(f, dist_dir)
  THEN {Restrict(f, {p \in DOMAIN f : ~(Inside(p, dist_dir) /\ f[p].kind = "file")})}
  ELSE {}

ResetOk ==
  /\ ~Exists(fs, dist_dir) \/ IsDir(fs, dist_dir)
  /\ fs' = ResetDist(fs)
  /\ written' = {dist_dir}
  /\ pc' = "loop"
  /\ UNCHANGED faults

RmTreeRaises ==
  /\ Exists(fs, dist_dir)
  /\ \/ ~IsDir(fs, dist_dir) /\ UNCHANGED faults
     \/ IsDir(fs, dist_dir) /\ faults < MaxFaults /\ faults' = faults + 1
  /\ fs' \in RmTreeFailed(fs)
  /\ pc' = "crashed"
  /\ UNCHANGED written

MakeDirsRaises ==
  /\ ~Exists(fs, dist_dir) \/ IsDir(fs, dist_dir)
  /\ faults < MaxFaults
  /\ faults' = faults + 1
  /\ fs' = (IF Exists(fs, dist_dir) THEN RmTree(fs, dist_dir) ELSE fs)
  /\ pc' = "crashed"
  /\ UNCHANGED written

\* Variant of the reset in which a failing rmtree is ignored.
Reset_swallow ==
  /\ pc = "reset"
  /\ \/ ResetOk
     \/ /\ Exists(fs, dist_dir)
        /\ fs' \in RmTreeFailed(fs)
        /\ pc' = "loop"
        /\ UNCHANGED <<written, faults>>
  /\ UNCHANGED <<i, out, raised, run, prev, start>>
\* Lines 5-8.  Nothing here is inside a try: an error ends the run.
Reset ==
  /\ pc = "reset"
  /\ \/ ResetOk
     \/ RmTreeRaises
     \/ MakeDirsRaises
  /\ UNCHANGED <<i, out, raised, run, prev, start>>

\* Variants of the try body: Copied printed for a missing source; Copied
\* printed whether or not the copy raised.
TryCopy_missingSaysCopied(f, k, flt) ==
  IF Exists(f, SrcPath(SrcOf(k)))
  THEN LET r == IF IsDir(f, SrcPath(SrcOf(k)))
                THEN CopyTree(f, SrcPath(SrcOf(k)), DstPath(k), flt)
                ELSE Copy2(f, SrcPath(SrcOf(k)), DstPath(k), flt)
       IN [fs |-> r.fs, says |-> IF r.ok THEN "Copied" ELSE "Error copying"]
  ELSE [fs |-> f, says |-> "Copied"]
TryCopy_copiedAlways(f, k, flt) ==
  IF Exists(f, SrcPath(SrcOf(k)))
  THEN LET r == IF IsDir(f, SrcPath(SrcOf(k)))
                THEN CopyTree(f, SrcPath(SrcOf(k)), DstPath(k), flt)
                ELSE Copy2(f, SrcPath(SrcOf(k)), DstPath(k), flt)
       IN [fs |-> r.fs, says |-> "Copied"]
  ELSE [fs |-> f, says |-> "Missing"]
\* The body of the try of one loop iteration, for manifest entry k under
\* fault flt: the file system it leaves, and whether print(Copied) or
\* print(Missing) was reached or an exception was raised before.
TryCopy(f, k, flt) ==
  IF Exists(f, SrcPath(SrcOf(k)))
  THEN LET r == IF IsDir(f, SrcPath(SrcOf(k)))
                THEN CopyTree(f, SrcPath(SrcOf(k)), DstPath(k), flt)
                ELSE Copy2(f, SrcPath(SrcOf(k)), DstPath(k), flt)
       IN [fs |-> r.fs, says |-> IF r.ok THEN "Copied" ELSE "Error copying"]
  ELSE [fs |-> f, says |-> "Missing"]

\* Variant in which an error of a copy is not caught and ends the run.
AfterEntry_abort(k, says) ==
  IF says = "Error copying" THEN "crashed"
  ELSE IF k = NumEntries THEN "list" ELSE "loop"
\* Where control goes after entry k: the except clause has handled whatever
\* was raised, so the for loop takes the next entry, or ends after the last.
AfterEntry(k, says) == IF k = NumEntries THEN "list" ELSE "loop"

\* Lines 20-33: one iteration of the for loop.
LoopStep ==
  /\ pc = "loop"
  /\ \E flt \in {NoFault} \cup
                (IF faults < MaxFaults /\ Exists(fs, SrcPath(SrcOf(i)))
                 THEN FaultPoints(fs, SrcPath(SrcOf(i))) ELSE {}) :
       LET r == TryCopy(fs, i, flt) IN
         /\ fs' = r.fs
         /\ out' = Append(out, Notice(r.says, SrcOf(i)))
         /\ raised' = IF r.says = "Error copying" THEN raised \cup {SrcOf(i)} ELSE raised
         /\ written' = written \cup (DOMAIN r.fs \ DOMAIN fs)
         /\ faults' = IF flt = NoFault THEN faults ELSE faults + 1
  /\ i' = i + 1
  /\ pc' = AfterEntry(i, out'[i].kind)
  /\ UNCHANGED <<run, prev, start>>

\* Line 35
Listing ==
  /\ pc = "list"
  /\ out' = Append(out, ListingLine(ListDir(fs, dist_dir)))
  /\ pc' = "size"
  /\ UNCHANGED <<fs, i, written, raised, faults, run, prev, start>>

\* Line 36
SizeReport ==
  /\ pc = "size"
  /\ out' = Append(out, SizeLine(Fmt2(Walk(fs, dist_dir))))
  /\ pc' = "done"
  /\ UNCHANGED <<fs, i, written, raised, faults, run, prev, start>>

\* The script is started again on what the last run left.
Rerun ==
  /\ pc \in {"done", "crashed"}
  /\ run < MaxRuns
  /\ prev' = [dist |-> DistOf(fs), out |-> out, done |-> pc = "done"]
  /\ run' = run + 1
  /\ pc' = "reset"
  /\ i' = 1
  /\ out' = <<>>
  /\ written' = {}
  /\ raised' = {}
  /\ start' = fs
  /\ UNCHANGED <<fs, faults>>

Next == Reset \/ LoopStep \/ Listing \/ SizeReport \/ Rerun

Spec == Init /\ [][Next]_vars

---------------------------------------------------------------------------
(* Vocabulary of the properties *)

Entries == 1..NumEntries
Done == pc = "done"

\* The path under d that corresponds to path p under s.
MapPath(p, s, d) == d \o SubSeq(p, Len(s) + 1, Len(p))

\* The tree at d in g is a copy of the tree at s in f: the same structure,
\* and every file with the same bytes.
SameTree(f, s, g, d) ==
  /\ \A p \in DOMAIN f : Under(p, s) =>
       /\ MapPath(p, s, d) \in DOMAIN g
       /\ g[MapPath(p, s, d)] = f[p]
  /\ \A q \in DOMAIN g : Under(q, d) => MapPath(q, d, s) \in DOMAIN f

\* Every file at or under s can be read.
Readable(f, s) == \A p \in DOMAIN f : (Under(p, s) /\ f[p].kind = "file") => f[p].readable

NothingAt(f, d) == \A p \in DOMAIN f : ~Under(p, d)

\* The number of lines of the output that are the notice n.
Count(n) == Cardinality({j \in 1..Len(out) : out[j] = n})

SrcExisted(k) == Exists(start, SrcPath(SrcOf(k)))

\* C1, as stated: every manifest source that exists and is readable when the
\* run starts has, when the run completes, an identical copy in the
\* destination under its mapped name; .env.local arrives as .env.
C1_ReadableIsCopied ==
  Done =>
    \A k \in Entries :
      (SrcExisted(k) /\ Readable(start, SrcPath(SrcOf(k)))) =>
        /\ SameTree(start, SrcPath(SrcOf(k)), fs, DstPath(k))
        /\ SrcOf(k) = ".env.local" =>
             /\ Exists(fs, dist_dir \o <<".env">>)
             /\ ~Exists(fs, dist_dir \o <<".env.local">>)

\* C1, amended: every manifest source that exists when the run starts and
\* whose copy does not raise has, when the run completes, an identical copy
\* in the destination under its mapped name; .env.local arrives as .env and
\* not as .env.local.
C1_CopiedIsIdentical ==
  Done =>
    \A k \in Entries :
      (SrcExisted(k) /\ SrcOf(k) \notin raised) =>
        /\ SameTree(start, SrcPath(SrcOf(k)), fs, DstPath(k))
        /\ SrcOf(k) = ".env.local" =>
             /\ Exists(fs, dist_dir \o <<".env">>)
             /\ ~Exists(fs, dist_dir \o <<".env.local">>)

C1_Witness ==
  /\ Done
  /\ IsFile(start, <<".env.local">>) /\ ".env.local" \notin raised
  /\ IsFile(fs, dist_dir \o <<".env">>)
  /\ IsDir(start, <<"public">>) /\ "public" \notin raised
  /\ IsFile(fs, dist_dir \o <<"public", "d", "g">>)
  /\ raised # {}

\* C2: when the run completes, a manifest entry whose source does not exist
\* has nothing in the destination under its mapped name and exactly one
\* Missing notice; an entry whose source exists has no Missing notice.
C2_MissingSkipped ==
  Done =>
    \A k \in Entries :
      IF SrcExisted(k)
      THEN Count(Notice("Missing", SrcOf(k))) = 0
      ELSE /\ NothingAt(fs, DstPath(k))
           /\ Count(Notice("Missing", SrcOf(k))) = 1

C2_Witness ==
  /\ Done
  /\ ~SrcExisted(5) /\ NothingAt(fs, DstPath(5)) /\ out[5] = Notice("Missing", ".env.local")
  /\ SrcExisted(3) /\ Exists(fs, DstPath(3))
  /\ Exists(start, dist_dir \o <<".env.local">>)

\* C3: an entry whose copy raises gets an Error notice and the run goes on:
\* it never ends there, and every later entry is processed, a missing one
\* reported missing and an existing one copied (unless its own copy raises).
C3_ErrorDoesNotStopLoop ==
  /\ raised # {} => pc \in {"loop", "list", "size", "done"}
  /\ Done =>
       \A k \in Entries : SrcOf(k) \in raised =>
         /\ out[k] = Notice("Error copying", SrcOf(k))
         /\ \A j \in Entries : j > k =>
              /\ ~SrcExisted(j) => out[j] = Notice("Missing", SrcOf(j))
              /\ SrcExisted(j) /\ SrcOf(j) \notin raised =>
                   /\ out[j] = Notice("Copied", SrcOf(j))
                   /\ SameTree(start, SrcPath(SrcOf(j)), fs, DstPath(j))

C3_Witness ==
  /\ Done
  /\ out[2] = Notice("Error copying", "public")
  /\ out[3] = Notice("Missing", "package.json")
  /\ out[4] = Notice("Copied", "server.js")
  /\ IsFile(fs, DstPath(4))
  /\ out[6] = Notice("Copied", "next.config.mjs")

\* C4: when the destination existed before the run, nothing of what it held
\* is left when the run completes: every top-level name in it is the mapped
\* name of a manifest entry, and everything in it was written by this run.
C4_StaleContentGone ==
  (Done /\ IsDir(start, dist_dir)) =>
    \A p \in DOMAIN fs : Inside(p, dist_dir) =>
      /\ p \in written
      /\ \E k \in Entries : p[2] = DstOf(k) /\ Count(Notice("Missing", SrcOf(k))) = 0

C4_Witness ==
  /\ Done
  /\ run = 1
  /\ IsFile(start, dist_dir \o <<"public", "stale">>)
  /\ ~Exists(fs, dist_dir \o <<"public", "stale">>)
  /\ ~Exists(fs, dist_dir \o <<"old.txt">>)
  /\ IsFile(fs, dist_dir \o <<"public", "f">>)

\* The files anywhere under the destination directory.
DistFiles(f) == {p \in DOMAIN f : Inside(p, dist_dir) /\ f[p].kind = "file"}

\* The size line of a completed run's output.
SizeOfRun(o) == o[Len(o)].hundredths

\* C5, as stated: whatever the destination held at first, a second run on
\* unchanged sources leaves the destination with the same contents and the
\* same reported size as the first.
C5_SecondRunSame ==
  (Done /\ run >= 2 /\ prev.done) =>
    /\ DistOf(fs) = prev.dist
    /\ SizeOfRun(out) = SizeOfRun(prev.out)

\* C5, amended: when no I/O fault strikes either run (a copy fails only for
\* what the source itself is, such as an unreadable file), a second run on
\* unchanged sources leaves the destination with the same contents and the
\* same reported size as the first.
C5_SecondRunSameNoFault ==
  (Done /\ run >= 2 /\ prev.done /\ faults = 0) =>
    /\ DistOf(fs) = prev.dist
    /\ SizeOfRun(out) = SizeOfRun(prev.out)

C5_Witness ==
  /\ Done /\ run = 2 /\ prev.done /\ faults = 0
  /\ "public" \in raised
  /\ IsFile(fs, dist_dir \o <<"public", "f">>)
  /\ IsFile(fs, dist_dir \o <<".env">>)
  /\ SizeOfRun(out) > 0

\* C6: after a run in which a copy raised, the listing and the size are
\* reached and the destination holds nothing of the entry that failed.
C6_FailedEntryLeavesNothing ==
  /\ raised # {} => pc \in {"loop", "list", "size", "done"}
  /\ Done =>
       \A k \in Entries : SrcOf(k) \in raised =>
         /\ NothingAt(fs, DstPath(k))
         /\ DstOf(k) \notin out[NumEntries + 1].names

\* C7: an error of the destination reset ends the run where it is raised:
\* no entry has been examined, nothing has been printed, and nothing is done
\* afterwards; and whenever the loop is about to take an entry, the
\* destination directory exists and was created by this run.
C7_ResetErrorIsFatal ==
  /\ pc = "crashed" => (i = 1 /\ out = <<>> /\ raised = {} /\ written = {})
  /\ pc \in {"loop", "list", "size", "done"} =>
       /\ IsDir(fs, dist_dir)
       /\ dist_dir \in written

C7_Witness ==
  /\ pc = "crashed"
  /\ faults = 1
  /\ IsDir(start, dist_dir)
  /\ ~Exists(fs, dist_dir)
  /\ SrcExisted(2)

\* C8: past the reset, the output is one notice per manifest entry, in
\* manifest order, each Copied, Missing or Error copying, then the listing,
\* then the size; and Copied is printed only for a copy that did not raise
\* (the whole of the source is then in the destination).
C8_OneNoticePerEntryInOrder ==
  pc \in {"loop", "list", "size", "done"} =>
    /\ Len(out) = (i - 1) + (IF pc \in {"size", "done"} THEN 1 ELSE 0)
                          + (IF pc = "done" THEN 1 ELSE 0)
    /\ pc # "loop" => i = NumEntries + 1
    /\ \A k \in 1..(i - 1) :
         /\ out[k].src = SrcOf(k)
         /\ out[k].kind \in {"Copied", "Missing", "Error copying"}
         /\ out[k].kind = "Copied" =>
              /\ SrcOf(k) \notin raised
              /\ SameTree(fs, SrcPath(SrcOf(k)), fs, DstPath(k))
         /\ out[k].kind = "Error copying" <=> SrcOf(k) \in raised
    /\ pc \in {"size", "done"} => out[NumEntries + 1].kind = "Listing"
    /\ pc = "done" => out[NumEntries + 2].kind = "Size"

C8_Witness ==
  /\ Done
  /\ Len(out) = NumEntries + 2
  /\ \E a, b, c \in Entries :
       /\ out[a].kind = "Copied"
       /\ out[b].kind = "Missing"
       /\ out[c].kind = "Error copying"

\* C9: the size reported is the sum of the sizes of all regular files at
\* any depth under the destination, in mebibytes, to the nearest hundredth;
\* an empty destination reports 0.00.
C9_SizeIsSumOfFiles ==
  Done =>
    LET total == SumSizes(fs, DistFiles(fs))
        diff == SizeOfRun(out) * MiB - 100 * total
    IN /\ 2 * diff <= MiB
       /\ 2 * diff >= -MiB
       /\ DistFiles(fs) = {} => SizeOfRun(out) = 0

C9_Witness ==
  /\ Done
  /\ IsFile(fs, dist_dir \o <<".next", "d", "g">>)
  /\ IsFile(fs, dist_dir \o <<"package.json">>)
  /\ SizeOfRun(out) > 100
  /\ (100 * SumSizes(fs, DistFiles(fs))) % MiB # 0

\* C10: a run writes only under the destination root: every path it creates
\* is there, and everything outside it, the manifest sources included, is
\* as it was when the run started; no manifest source is the destination
\* root or lies under it.
C10_SourcesUntouched ==
  /\ SourcesOf(fs) = SourcesOf(start)
  /\ \A p \in written : Under(p, dist_dir)
  /\ \A k \in Entries : ~Under(SrcPath(SrcOf(k)), dist_dir)

C10_Witness ==
  /\ Done
  /\ \E a, b, c \in Entries :
       /\ out[a].kind = "Copied" /\ IsDir(fs, SrcPath(SrcOf(a)))
       /\ out[b].kind = "Missing"
       /\ out[c].kind = "Error copying" /\ Exists(fs, DstPath(c))
  /\ Exists(start, dist_dir \o <<"old.txt">>)

====
